---- MODULE Spec2Model ----
(***************************************************************************)
(* A model of the two-stage typed-routing pipeline of src/src/main.cpp:    *)
(* the SPSCQueue ring, the producer / processor / strategy workers, the    *)
(* atomic counters, the stop flag and the controller's stop-and-join.      *)
(*                                                                         *)
(* Every load and store of SPSCQueue::push and SPSCQueue::pop is a step    *)
(* of its own, so that all interleavings of the threads that share a ring  *)
(* are explored.  The release/acquire pairs of the ring make the stores    *)
(* visible in program order, which is what an interleaving model assumes.  *)
(***************************************************************************)
EXTENDS Integers, Sequences, FiniteSets, TLC

(***************************************************************************)
(* Bounds of the model.                                                    *)
(***************************************************************************)
\* Capacity of every ring (QUEUE_SIZE is 1 << 14 in the program).
Capacity == 3
\* Largest producer_count / processor_count / strategy_count explored.
MaxProducers == 2
MaxProcessors == 2
MaxStrategies == 2
\* Message types drawn by a producer are at most 0..MaxType (type_dist(0, 3)).
MaxType == 1
\* The producers together build at most MaxMsgs messages (one fewer when a
\* ring is shared by several pushing threads).
MaxMsgs == 4
\* The monotonic clock takes the values 1..MaxClock.
MaxClock == 2
\* The ring harness makes at most MaxCalls calls of push.
MaxCalls == 5
\* Largest duration_secs (monitor intervals) explored.
MaxSecs == 2
\* percentile is called on every series of at most MaxLen values 0..MaxVal.
MaxLen == 4
MaxVal == 2
\* The benchmark's producer counts at most MaxOps pushes per iteration.
MaxOps == 2

(***************************************************************************)
(* Program constants.                                                      *)
(***************************************************************************)
\* cfg.stageN_routing.resize(8, 0)
RoutingSlots == 8
\* ->Iterations(5), benchmarks/queue_benchmark.cpp
BenchIterations == 5

VARIABLES
    \* ---- the pipeline (main) ----
    cfg,            \* Config, fixed after load_config
    stage1_queues,  \* one ring per processor
    stage2_queues,  \* one ring per strategy
    stop_flag,
    produced, processed, delivered,
    latencies,      \* LatencyStats: the four series
    clock,          \* last value returned by now_ns()
    scenario,       \* what this run explores: the largest clock value, the
                    \* largest msg_type drawn and the number of messages built
                    \* (bounds, never written)
    prod,           \* producer threads: position and locals, and (history)
                    \* sent: the sequence and the result of every push
    proc,           \* processor threads
    strat,          \* strategy threads
    ctl,            \* the controller's (main's) position
    \* history of the pipeline, not program state
    endpoints,      \* per ring: the threads that stored head / tail
    dropped,        \* messages a processor gave up at line 219
    recorded,       \* <<producer_id, sequence, msg_type>> of every
                    \* latencies.add
    \* ---- the ring harness: one ring, one pusher, one popper ----
    q, pusher, popper, calls,
    pushed, popped, \* history: items accepted / returned
    last,           \* the ring used by one thread: its last call and result
    \* ---- main's monitoring loop ----
    mon,            \* sec, the counters read and the prev_* locals
    log,            \* history: one entry per line written to the log
    summary,        \* what main wrote to the summary file (<<>> before)
    oob,            \* history: a ring vector was indexed out of range
    \* ---- LatencyStats::add step by step ----
    mtx,            \* latencies.mtx: the strategy that holds it, or Unlocked
    sample,         \* per strategy: the arguments of its call of add
    adds,           \* history: calls of add begun
    \* ---- LatencyStats::percentile on its own ----
    pv,             \* the last call: arguments, v after it, value returned
    \* ---- BM_SPSCQueue_Throughput (benchmarks/queue_benchmark.cpp) ----
    bench           \* its flags, counter, ring, and the positions of the
                    \* benchmark function and its two threads

pipeVars == <<cfg, stage1_queues, stage2_queues, stop_flag, produced, processed,
              delivered, latencies, clock, scenario, prod, proc, strat, ctl,
              endpoints, dropped, recorded>>
ringVars == <<q, pusher, popper, calls, pushed, popped, last>>
sideVars == <<mon, log, summary, oob, mtx, sample, adds, pv, bench>>
vars == <<cfg, stage1_queues, stage2_queues, stop_flag, produced, processed,
          delivered, latencies, clock, scenario, prod, proc, strat, ctl,
          endpoints, dropped, recorded, q, pusher, popper, calls, pushed, popped, last,
          mon, log, summary, oob, mtx, sample, adds, pv, bench>>

(***************************************************************************)
(* SPSCQueue<T, Capacity>                                                  *)
(***************************************************************************)
\* A value that was never written (std::array<T, Capacity> buffer_ is left
\* uninitialised by the constructor; so are the fields a thread has not set).
Indet == 0 - 1

Slots == 0 .. (Capacity - 1)

\* SPSCQueue() : head_(0), tail_(0) {} with every slot of buffer_ unwritten.
NewQueue(unwritten) == [head |-> 0, tail |-> 0, buffer |-> [i \in Slots |-> unwritten]]

\* push, line 29: auto head = head_.load(relaxed)
PushLoadHead(rq) == rq.head

PushNextNoWrap(head) == head + 1
\* push, line 30: auto next = (head + 1) % Capacity
PushNext(head) == (head + 1) % Capacity

PushFullNever(rq, next) == FALSE
\* push, line 31: if (next == tail_.load(acquire)) return false
PushFull(rq, next) == next = rq.tail

\* push, line 33: buffer_[head] = item
PushWrite(rq, head, item) == [rq EXCEPT !.buffer[head] = item]

\* push, line 34: head_.store(next, release)
PushStore(rq, next) == [rq EXCEPT !.head = next]

\* pop, line 39: auto tail = tail_.load(relaxed)
PopLoadTail(rq) == rq.tail

PopEmptyNever(rq, tail) == FALSE
\* pop, line 40: if (tail == head_.load(acquire)) return false
PopEmpty(rq, tail) == tail = rq.head

\* pop, line 42: item = buffer_[tail]
PopCopy(rq, tail) == rq.buffer[tail]

\* pop, line 43: tail_.store((tail + 1) % Capacity, release)
PopStore(rq, tail) == [rq EXCEPT !.tail = (tail + 1) % Capacity]

sizeNoWrap(rq) == rq.head - rq.tail
\* size, lines 47-51
size(rq) == (rq.head + Capacity - rq.tail) % Capacity

(***************************************************************************)
(* The ring harness: one SPSCQueue, exactly one thread that calls push and *)
(* exactly one thread that calls pop, each load and store a step.          *)
(***************************************************************************)
\* What a read of a never-written item may yield.
GarbageItems == {0, 1}

ReadItem(v) == IF v = Indet THEN GarbageItems ELSE {v}

RingInit ==
    /\ q = NewQueue(Indet)
    /\ pusher = [pc |-> "idle", head |-> 0, next |-> 0, item |-> 0]
    /\ popper = [pc |-> "idle", tail |-> 0, item |-> 0]
    /\ calls = 0
    /\ pushed = <<>>
    /\ popped = <<>>
    /\ last = [op |-> "none", ok |-> FALSE, arg |-> 0, out |-> 0, n |-> 0]

\* push(item) is called with a fresh item; lines 29-30.
PusherCall ==
    /\ pusher.pc = "idle"
    /\ calls < MaxCalls
    /\ calls' = calls + 1
    /\ pusher' = [pc |-> "push_tail", head |-> PushLoadHead(q),
                  next |-> PushNext(PushLoadHead(q)), item |-> calls + 1]
    /\ UNCHANGED <<pipeVars, sideVars, last, q, popper, pushed, popped>>

\* line 31-32
PusherCheck ==
    /\ pusher.pc = "push_tail"
    /\ pusher' = [pusher EXCEPT !.pc = IF PushFull(q, pusher.next)
                                       THEN "idle" ELSE "push_write"]
    /\ UNCHANGED <<pipeVars, sideVars, last, q, popper, calls, pushed, popped>>

\* line 33
PusherWrite ==
    /\ pusher.pc = "push_write"
    /\ q' = PushWrite(q, pusher.head, pusher.item)
    /\ pusher' = [pusher EXCEPT !.pc = "push_store"]
    /\ UNCHANGED <<pipeVars, sideVars, last, popper, calls, pushed, popped>>

\* lines 34-35: the item is accepted
PusherStore ==
    /\ pusher.pc = "push_store"
    /\ q' = PushStore(q, pusher.next)
    /\ pushed' = Append(pushed, pusher.item)
    /\ pusher' = [pusher EXCEPT !.pc = "idle"]
    /\ UNCHANGED <<pipeVars, sideVars, last, popper, calls, popped>>

\* pop(item) is called; line 39
PopperCall ==
    /\ popper.pc = "idle"
    /\ popper' = [popper EXCEPT !.pc = "pop_head", !.tail = PopLoadTail(q)]
    /\ UNCHANGED <<pipeVars, sideVars, last, q, pusher, calls, pushed, popped>>

\* lines 40-41
PopperCheck ==
    /\ popper.pc = "pop_head"
    /\ popper' = [popper EXCEPT !.pc = IF PopEmpty(q, popper.tail)
                                       THEN "idle" ELSE "pop_copy"]
    /\ UNCHANGED <<pipeVars, sideVars, last, q, pusher, calls, pushed, popped>>

\* line 42
PopperCopy ==
    /\ popper.pc = "pop_copy"
    /\ \E v \in ReadItem(PopCopy(q, popper.tail)) :
          popper' = [popper EXCEPT !.pc = "pop_store", !.item = v]
    /\ UNCHANGED <<pipeVars, sideVars, last, q, pusher, calls, pushed, popped>>

\* lines 43-44: the item is returned
PopperStore ==
    /\ popper.pc = "pop_store"
    /\ q' = PopStore(q, popper.tail)
    /\ popped' = Append(popped, popper.item)
    /\ popper' = [popper EXCEPT !.pc = "idle"]
    /\ UNCHANGED <<pipeVars, sideVars, last, pusher, calls, pushed>>

RingNext ==
    \/ PusherCall
    \/ PusherCheck
    \/ PusherWrite
    \/ PusherStore
    \/ PopperCall
    \/ PopperCheck
    \/ PopperCopy
    \/ PopperStore

(***************************************************************************)
(* The ring used by a single thread: every call of push, pop and size runs *)
(* from its first line to its return before the next call begins.          *)
(***************************************************************************)
\* bool push(const T& item), lines 28-36, with a fresh item
SeqPush ==
    /\ calls < MaxCalls
    /\ calls' = calls + 1
    /\ LET item == calls + 1
           head == PushLoadHead(q)
           next == PushNext(head)
       IN  IF PushFull(q, next)
           THEN /\ last' = [last EXCEPT !.op = "push", !.ok = FALSE, !.arg = item]
                /\ UNCHANGED <<q, pushed>>
           ELSE /\ q' = PushStore(PushWrite(q, head, item), next)
                /\ pushed' = Append(pushed, item)
                /\ last' = [last EXCEPT !.op = "push", !.ok = TRUE, !.arg = item]
    /\ UNCHANGED <<pipeVars, sideVars, pusher, popper, popped>>

\* bool pop(T& item), lines 38-45; last.out is the caller's item
SeqPop ==
    /\ LET tail == PopLoadTail(q)
       IN  IF PopEmpty(q, tail)
           THEN /\ last' = [last EXCEPT !.op = "pop", !.ok = FALSE]
                /\ UNCHANGED <<q, popped>>
           ELSE \E v \in ReadItem(PopCopy(q, tail)) :
                    /\ q' = PopStore(q, tail)
                    /\ popped' = Append(popped, v)
                    /\ last' = [last EXCEPT !.op = "pop", !.ok = TRUE, !.out = v]
    /\ UNCHANGED <<pipeVars, sideVars, pusher, popper, calls, pushed>>

\* size_t size() const, lines 47-51
SeqSize ==
    /\ last' = [last EXCEPT !.op = "size", !.n = size(q)]
    /\ UNCHANGED <<pipeVars, sideVars, q, pusher, popper, calls, pushed, popped>>

SeqNext ==
    \/ SeqPush
    \/ SeqPop
    \/ SeqSize

(***************************************************************************)
(* Message, Config                                                         *)
(***************************************************************************)
Types == 0 .. MaxType

\* struct Message, lines 62-69
Message(type, pid, seq, ts, procId, procNs) ==
    [msg_type |-> type, producer_id |-> pid, sequence |-> seq,
     timestamp_ns |-> ts, processor_id |-> procId, processed_ns |-> procNs]

\* A Message no field of which was ever written: a slot of buffer_ before
\* its first push, or the local "Message msg;" of lines 208 and 236.
UninitMsg == Message(Indet, Indet, Indet, Indet, Indet, Indet)

\* What copying a never-written Message may yield: any bit pattern.  The
\* model keeps the all-zero pattern of fresh pages and one whose timestamp
\* lies after every clock reading, for every msg_type that indexes the
\* routing tables in range.
GarbageMsgs ==
    { Message(t, 0, 0, ts, 0, 0) : t \in 0 .. scenario.max_type, ts \in {0, MaxClock + 1} }

ReadMsg(m) == IF m = UninitMsg THEN GarbageMsgs ELSE {m}

\* load_config, lines 97-107: both tables have 8 entries, 0 unless a rule
\* sets them; the rules of the explored configurations cover the types drawn.
RoutingTables(n) ==
    { [k \in 0 .. (RoutingSlots - 1) |-> IF k \in Types THEN f[k] ELSE 0] :
        f \in [Types -> 0 .. (n - 1)] }

\* struct Config, lines 74-81, for the configurations whose routing entries
\* are in range.
Configs ==
    { [duration_secs |-> secs,
       producer_count |-> a, processor_count |-> b, strategy_count |-> c,
       stage1_routing |-> r1, stage2_routing |-> r2] :
        secs \in 0 .. MaxSecs,
        a \in 1 .. MaxProducers, b \in 1 .. MaxProcessors, c \in 1 .. MaxStrategies,
        r1 \in RoutingTables(MaxProcessors), r2 \in RoutingTables(MaxStrategies) }

InRange(c) ==
    /\ \A k \in DOMAIN c.stage1_routing : c.stage1_routing[k] < c.processor_count
    /\ \A k \in DOMAIN c.stage2_routing : c.stage2_routing[k] < c.strategy_count

Producers == 0 .. (cfg.producer_count - 1)
Processors == 0 .. (cfg.processor_count - 1)
Strategies == 0 .. (cfg.strategy_count - 1)

\* line 186: msg.msg_type = type_dist(gen), the draws of this run
TypeDraws == 0 .. scenario.max_type

\* now_ns(), lines 112-115: a steady clock; it never goes back.
NowNs == { t \in clock .. (clock + 1) : t <= scenario.horizon }

\* 2^64 does not fit TLC's integers: the modulus of uint64_t arithmetic is
\* represented by a value above every clock value of the model.
U64 == 2 ^ 20

\* a - b in uint64_t
SubU64(a, b) == (a - b + U64) % U64

\* std::mutex mtx (line 123) held by no thread
Unlocked == 0 - 1

(***************************************************************************)
(* main: the state after lines 161-173 with every worker thread created    *)
(* and none of them scheduled yet.                                         *)
(***************************************************************************)
PipeInitAt(c, sc, pc0, ctl0) ==
    /\ cfg = c
    /\ scenario = sc
    /\ stage1_queues = [i \in 0 .. (c.processor_count - 1) |-> NewQueue(UninitMsg)]
    /\ stage2_queues = [j \in 0 .. (c.strategy_count - 1) |-> NewQueue(UninitMsg)]
    /\ stop_flag = FALSE
    /\ produced = 0
    /\ processed = 0
    /\ delivered = 0
    /\ latencies = [stage1_us |-> <<>>, processing_us |-> <<>>,
                    stage2_us |-> <<>>, total_us |-> <<>>]
    /\ clock = 1
    /\ prod = [p \in 0 .. (c.producer_count - 1) |->
                 [pc |-> pc0, seq |-> 0, msg |-> UninitMsg, failed |-> FALSE,
                  proc_id |-> 0, head |-> 0, next |-> 0, sent |-> <<>>]]
    /\ proc = [i \in 0 .. (c.processor_count - 1) |->
                 [pc |-> pc0, msg |-> UninitMsg, tail |-> 0,
                  strat_id |-> 0, head |-> 0, next |-> 0]]
    /\ strat = [j \in 0 .. (c.strategy_count - 1) |->
                 [pc |-> pc0, msg |-> UninitMsg, tail |-> 0, t_end |-> 0]]
    /\ ctl = ctl0
    /\ endpoints = [head1 |-> [i \in 0 .. (c.processor_count - 1) |-> {}],
                    tail1 |-> [i \in 0 .. (c.processor_count - 1) |-> {}],
                    head2 |-> [j \in 0 .. (c.strategy_count - 1) |-> {}],
                    tail2 |-> [j \in 0 .. (c.strategy_count - 1) |-> {}]]
    /\ dropped = 0
    /\ recorded = <<>>
    \* line 258: uint64_t prev_prod = 0, prev_proc = 0, prev_del = 0; sec = 1
    /\ mon = [sec |-> 1, p |-> 0, r |-> 0, d |-> 0,
              prev_prod |-> 0, prev_proc |-> 0, prev_del |-> 0]
    /\ log = <<>>
    /\ summary = <<>>
    /\ oob = FALSE
    /\ mtx = Unlocked
    /\ sample = [j \in 0 .. (c.strategy_count - 1) |-> <<0, 0, 0, 0>>]
    /\ adds = 0
    /\ pv = [held |-> FALSE, called |-> FALSE, arg |-> <<>>, pct |-> 0,
             v |-> <<>>, ret |-> 0]
    \* queue_benchmark.cpp lines 57-89: the ring, the flags, the counter and
    \* the two threads created, none of them scheduled yet
    /\ bench = [pc |-> "reset", iter |-> 0, start_flag |-> FALSE,
                stop_flag |-> FALSE, count |-> 0, ops |-> 0,
                queue |-> NewQueue(Indet),
                producer |-> "wait", consumer |-> "wait"]

\* Every worker thread created and none of them scheduled yet, main at the
\* monitoring loop.
PipeInit(c, sc) == PipeInitAt(c, sc, "loop", "monitor")

\* The smallest configuration: 1-1-1, all routes zero, no monitor interval.
IdentityConfig ==
    [duration_secs |-> 0,
     producer_count |-> 1, processor_count |-> 1, strategy_count |-> 1,
     stage1_routing |-> [k \in 0 .. (RoutingSlots - 1) |-> 0],
     stage2_routing |-> [k \in 0 .. (RoutingSlots - 1) |-> 0]]

(***************************************************************************)
(* Producer thread, lines 180-199                                          *)
(***************************************************************************)
RECURSIVE SumSeq(_)
SumSeq(S) == IF S = {} THEN 0
             ELSE LET p == CHOOSE x \in S : TRUE
                  IN  prod[p].seq + SumSeq(S \ {p})

\* The messages built so far by all producers (each seq counts its own).
Built == SumSeq(Producers)

\* The pushes of a producer that returned true, by its history.
Accepted(pr) == {k \in 1 .. Len(pr.sent) : pr.sent[k].ok}

NextSequenceAccepted(pr) == Cardinality(Accepted(pr))
NextSequenceRetry(pr) == IF pr.failed THEN pr.msg.sequence ELSE pr.seq
\* line 188: msg.sequence = seq++ (the value the message gets)
NextSequence(pr) == pr.seq

\* line 193: what q.push(msg) returned for the message of that sequence
PushResult(pr, ok) == [sequence |-> pr.msg.sequence, ok |-> ok]

\* line 184: while (!stop_flag.load(relaxed))
ProducerLoop(p) ==
    /\ prod[p].pc = "loop"
    /\ stop_flag \/ Built < scenario.max_msgs
    /\ prod' = [prod EXCEPT ![p].pc = IF stop_flag THEN "done" ELSE "build"]
    /\ UNCHANGED <<ringVars, sideVars, cfg, scenario, stage1_queues, stage2_queues, stop_flag, produced, processed,
                   delivered, latencies, clock, proc, strat, ctl,
                   endpoints, dropped, recorded>>

Stage1RouteBySequence(type, sequence) == sequence % cfg.processor_count
\* line 191: int proc_id = cfg.stage1_routing[msg.msg_type], for the message
\* of that type and sequence
Stage1Route(type, sequence) == cfg.stage1_routing[type]

\* lines 185-192: a new message on every iteration, then the routing lookup
ProducerBuild(p) ==
    /\ prod[p].pc = "build"
    /\ \E t \in TypeDraws, now \in NowNs :
          /\ clock' = now
          /\ prod' = [prod EXCEPT
                ![p].pc = "push_head",
                ![p].msg = Message(t, p, NextSequence(prod[p]), now, Indet, Indet),
                ![p].seq = NextSequence(prod[p]) + 1,
                ![p].failed = FALSE,
                ![p].proc_id = Stage1Route(t, NextSequence(prod[p]))]
    /\ UNCHANGED <<ringVars, sideVars, cfg, scenario, stage1_queues, stage2_queues, stop_flag, produced, processed,
                   delivered, latencies, proc, strat, ctl,
                   endpoints, dropped, recorded>>

\* q.push(msg), lines 29-30, on the ring that stage1_queues[proc_id] is when
\* proc_id indexes the vector in range
ProducerPushHead(p) ==
    /\ prod[p].pc = "push_head"
    /\ prod[p].proc_id \in Processors
    /\ LET h == PushLoadHead(stage1_queues[prod[p].proc_id])
       IN  prod' = [prod EXCEPT ![p].pc = "push_tail", ![p].head = h,
                                ![p].next = PushNext(h)]
    /\ UNCHANGED <<ringVars, sideVars, cfg, scenario, stage1_queues, stage2_queues, stop_flag, produced, processed,
                   delivered, latencies, clock, proc, strat, ctl,
                   endpoints, dropped, recorded>>

\* q.push(msg), lines 31-32; on full: line 196, yield, and back to line 184
ProducerPushTail(p) ==
    /\ prod[p].pc = "push_tail"
    /\ IF PushFull(stage1_queues[prod[p].proc_id], prod[p].next)
       THEN prod' = [prod EXCEPT ![p].pc = "loop", ![p].failed = TRUE,
                                 ![p].head = 0, ![p].next = 0,
                                 ![p].sent = Append(@, PushResult(prod[p], FALSE))]
       ELSE prod' = [prod EXCEPT ![p].pc = "push_write"]
    /\ UNCHANGED <<ringVars, sideVars, cfg, scenario, stage1_queues, stage2_queues, stop_flag, produced, processed,
                   delivered, latencies, clock, proc, strat, ctl,
                   endpoints, dropped, recorded>>

\* q.push(msg), line 33
ProducerPushWrite(p) ==
    /\ prod[p].pc = "push_write"
    /\ stage1_queues' = [stage1_queues EXCEPT
          ![prod[p].proc_id] = PushWrite(@, prod[p].head, prod[p].msg)]
    /\ prod' = [prod EXCEPT ![p].pc = "push_store"]
    /\ UNCHANGED <<ringVars, sideVars, cfg, scenario, stage2_queues, stop_flag, produced, processed,
                   delivered, latencies, clock, proc, strat, ctl,
                   endpoints, dropped, recorded>>

\* q.push(msg), lines 34-35
ProducerPushStore(p) ==
    /\ prod[p].pc = "push_store"
    /\ stage1_queues' = [stage1_queues EXCEPT
          ![prod[p].proc_id] = PushStore(@, prod[p].next)]
    /\ endpoints' = [endpoints EXCEPT !.head1[prod[p].proc_id] = @ \cup {p}]
    /\ prod' = [prod EXCEPT ![p].pc = "inc", ![p].head = 0, ![p].next = 0,
                             ![p].sent = Append(@, PushResult(prod[p], TRUE))]
    /\ UNCHANGED <<ringVars, sideVars, cfg, scenario, stage2_queues, stop_flag, produced, processed,
                   delivered, latencies, clock, proc, strat, ctl,
                   dropped, recorded>>

\* line 194: produced++
ProducerInc(p) ==
    /\ prod[p].pc = "inc"
    /\ produced' = produced + 1
    /\ prod' = [prod EXCEPT ![p].pc = "loop"]
    /\ UNCHANGED <<ringVars, sideVars, cfg, scenario, stage1_queues, stage2_queues, stop_flag, processed,
                   delivered, latencies, clock, proc, strat, ctl,
                   endpoints, dropped, recorded>>

(***************************************************************************)
(* Processor thread, lines 207-227.  tail_ of stage1_queues[i] is written  *)
(* by processor i alone, so pop's load of it (line 39) is taken together   *)
(* with the load of head_ (line 40).                                       *)
(***************************************************************************)
\* line 209: while (!stop_flag.load(relaxed))
ProcessorLoop(i) ==
    /\ proc[i].pc = "loop"
    /\ proc' = [proc EXCEPT ![i].pc = IF stop_flag THEN "done" ELSE "pop_head"]
    /\ UNCHANGED <<ringVars, sideVars, cfg, scenario, stage1_queues, stage2_queues, stop_flag, produced, processed,
                   delivered, latencies, clock, prod, strat, ctl,
                   endpoints, dropped, recorded>>

\* stage1_queues[proc_id]->pop(msg), lines 39-41; on empty: line 224
ProcessorPopHead(i) ==
    /\ proc[i].pc = "pop_head"
    /\ LET t == PopLoadTail(stage1_queues[i])
       IN  IF PopEmpty(stage1_queues[i], t)
           THEN proc' = [proc EXCEPT ![i].pc = "loop"]
           ELSE proc' = [proc EXCEPT ![i].pc = "pop_copy", ![i].tail = t]
    /\ UNCHANGED <<ringVars, sideVars, cfg, scenario, stage1_queues, stage2_queues, stop_flag, produced, processed,
                   delivered, latencies, clock, prod, strat, ctl,
                   endpoints, dropped, recorded>>

\* pop, line 42
ProcessorPopCopy(i) ==
    /\ proc[i].pc = "pop_copy"
    /\ \E m \in ReadMsg(PopCopy(stage1_queues[i], proc[i].tail)) :
          proc' = [proc EXCEPT ![i].pc = "pop_store", ![i].msg = m]
    /\ UNCHANGED <<ringVars, sideVars, cfg, scenario, stage1_queues, stage2_queues, stop_flag, produced, processed,
                   delivered, latencies, clock, prod, strat, ctl,
                   endpoints, dropped, recorded>>

\* pop, lines 43-44
ProcessorPopStore(i) ==
    /\ proc[i].pc = "pop_store"
    /\ stage1_queues' = [stage1_queues EXCEPT ![i] = PopStore(@, proc[i].tail)]
    /\ endpoints' = [endpoints EXCEPT !.tail1[i] = @ \cup {i}]
    /\ proc' = [proc EXCEPT ![i].pc = "stamp", ![i].tail = 0]
    /\ UNCHANGED <<ringVars, sideVars, cfg, scenario, stage2_queues, stop_flag, produced, processed,
                   delivered, latencies, clock, prod, strat, ctl,
                   dropped, recorded>>

\* lines 211-217: stamp the message, look up its strategy
ProcessorStamp(i) ==
    /\ proc[i].pc = "stamp"
    /\ \E t_now \in NowNs :
          /\ clock' = t_now
          /\ proc' = [proc EXCEPT
                ![i].pc = "push_head",
                ![i].msg = [@ EXCEPT !.processor_id = i, !.processed_ns = t_now],
                ![i].strat_id = cfg.stage2_routing[proc[i].msg.msg_type]]
    /\ UNCHANGED <<ringVars, sideVars, cfg, scenario, stage1_queues, stage2_queues, stop_flag, produced, processed,
                   delivered, latencies, prod, strat, ctl,
                   endpoints, dropped, recorded>>

\* stage2_queues[strat_id]->push(msg), lines 29-30, on the ring that
\* stage2_queues[strat_id] is when strat_id indexes the vector in range
ProcessorPushHead(i) ==
    /\ proc[i].pc = "push_head"
    /\ proc[i].strat_id \in Strategies
    /\ LET h == PushLoadHead(stage2_queues[proc[i].strat_id])
       IN  proc' = [proc EXCEPT ![i].pc = "push_tail", ![i].head = h,
                                ![i].next = PushNext(h)]
    /\ UNCHANGED <<ringVars, sideVars, cfg, scenario, stage1_queues, stage2_queues, stop_flag, produced, processed,
                   delivered, latencies, clock, prod, strat, ctl,
                   endpoints, dropped, recorded>>

\* push, lines 31-32
ProcessorPushTail(i) ==
    /\ proc[i].pc = "push_tail"
    /\ IF PushFull(stage2_queues[proc[i].strat_id], proc[i].next)
       THEN proc' = [proc EXCEPT ![i].pc = "retry", ![i].head = 0, ![i].next = 0]
       ELSE proc' = [proc EXCEPT ![i].pc = "push_write"]
    /\ UNCHANGED <<ringVars, sideVars, cfg, scenario, stage1_queues, stage2_queues, stop_flag, produced, processed,
                   delivered, latencies, clock, prod, strat, ctl,
                   endpoints, dropped, recorded>>

RetryExitKeepsGoing(i) == FALSE
\* line 219: if (stop_flag.load()) return;
RetryExit(i) == stop_flag

\* lines 219-220, after a push that found the ring full: return when stop is
\* set and the message in hand is gone, else yield and push the same message
ProcessorRetry(i) ==
    /\ proc[i].pc = "retry"
    /\ IF RetryExit(i)
       THEN /\ proc' = [proc EXCEPT ![i].pc = "done"]
            /\ dropped' = dropped + 1
       ELSE /\ proc' = [proc EXCEPT ![i].pc = "push_head"]
            /\ UNCHANGED dropped
    /\ UNCHANGED <<ringVars, sideVars, cfg, scenario, stage1_queues, stage2_queues, stop_flag, produced, processed,
                   delivered, latencies, clock, prod, strat, ctl,
                   endpoints, recorded>>

\* push, line 33
ProcessorPushWrite(i) ==
    /\ proc[i].pc = "push_write"
    /\ stage2_queues' = [stage2_queues EXCEPT
          ![proc[i].strat_id] = PushWrite(@, proc[i].head, proc[i].msg)]
    /\ proc' = [proc EXCEPT ![i].pc = "push_store"]
    /\ UNCHANGED <<ringVars, sideVars, cfg, scenario, stage1_queues, stop_flag, produced, processed,
                   delivered, latencies, clock, prod, strat, ctl,
                   endpoints, dropped, recorded>>

\* push, lines 34-35
ProcessorPushStore(i) ==
    /\ proc[i].pc = "push_store"
    /\ stage2_queues' = [stage2_queues EXCEPT
          ![proc[i].strat_id] = PushStore(@, proc[i].next)]
    /\ endpoints' = [endpoints EXCEPT !.head2[proc[i].strat_id] = @ \cup {i}]
    /\ proc' = [proc EXCEPT ![i].pc = "inc", ![i].head = 0, ![i].next = 0]
    /\ UNCHANGED <<ringVars, sideVars, cfg, scenario, stage1_queues, stop_flag, produced, processed,
                   delivered, latencies, clock, prod, strat, ctl,
                   dropped, recorded>>

\* line 222: processed++
ProcessorInc(i) ==
    /\ proc[i].pc = "inc"
    /\ processed' = processed + 1
    /\ proc' = [proc EXCEPT ![i].pc = "loop"]
    /\ UNCHANGED <<ringVars, sideVars, cfg, scenario, stage1_queues, stage2_queues, stop_flag, produced,
                   delivered, latencies, clock, prod, strat, ctl,
                   endpoints, dropped, recorded>>

(***************************************************************************)
(* Strategy thread, lines 235-251                                          *)
(***************************************************************************)
StrategyExitWhenDrained(j) == stop_flag /\ size(stage2_queues[j]) = 0
\* line 237: while (!stop_flag.load(relaxed)): the loop ends on the flag alone
StrategyExit(j) == stop_flag

StrategyLoop(j) ==
    /\ strat[j].pc = "loop"
    /\ strat' = [strat EXCEPT ![j].pc = IF StrategyExit(j) THEN "done" ELSE "pop_head"]
    /\ UNCHANGED <<ringVars, sideVars, cfg, scenario, stage1_queues, stage2_queues, stop_flag, produced, processed,
                   delivered, latencies, clock, prod, proc, ctl,
                   endpoints, dropped, recorded>>

\* stage2_queues[sid]->pop(msg), lines 39-41; on empty: line 248
StrategyPopHead(j) ==
    /\ strat[j].pc = "pop_head"
    /\ LET t == PopLoadTail(stage2_queues[j])
       IN  IF PopEmpty(stage2_queues[j], t)
           THEN strat' = [strat EXCEPT ![j].pc = "loop"]
           ELSE strat' = [strat EXCEPT ![j].pc = "pop_copy", ![j].tail = t]
    /\ UNCHANGED <<ringVars, sideVars, cfg, scenario, stage1_queues, stage2_queues, stop_flag, produced, processed,
                   delivered, latencies, clock, prod, proc, ctl,
                   endpoints, dropped, recorded>>

\* pop, line 42
StrategyPopCopy(j) ==
    /\ strat[j].pc = "pop_copy"
    /\ \E m \in ReadMsg(PopCopy(stage2_queues[j], strat[j].tail)) :
          strat' = [strat EXCEPT ![j].pc = "pop_store", ![j].msg = m]
    /\ UNCHANGED <<ringVars, sideVars, cfg, scenario, stage1_queues, stage2_queues, stop_flag, produced, processed,
                   delivered, latencies, clock, prod, proc, ctl,
                   endpoints, dropped, recorded>>

\* pop, lines 43-44
StrategyPopStore(j) ==
    /\ strat[j].pc = "pop_store"
    /\ stage2_queues' = [stage2_queues EXCEPT ![j] = PopStore(@, strat[j].tail)]
    /\ endpoints' = [endpoints EXCEPT !.tail2[j] = @ \cup {j}]
    /\ strat' = [strat EXCEPT ![j].pc = "clock", ![j].tail = 0]
    /\ UNCHANGED <<ringVars, sideVars, cfg, scenario, stage1_queues, stop_flag, produced, processed,
                   delivered, latencies, clock, prod, proc, ctl,
                   dropped, recorded>>

\* line 239: uint64_t t_end = now_ns()
StrategyClock(j) ==
    /\ strat[j].pc = "clock"
    /\ \E t \in NowNs :
          /\ clock' = t
          /\ strat' = [strat EXCEPT ![j].pc = "add", ![j].t_end = t]
    /\ UNCHANGED <<ringVars, sideVars, cfg, scenario, stage1_queues, stage2_queues, stop_flag, produced, processed,
                   delivered, latencies, prod, proc, ctl,
                   endpoints, dropped, recorded>>

\* LatencyStats::add, lines 129-135: the four push_back under the mutex.
\* The samples are kept in nanoseconds (the program divides by 1000.0).
LatencyAdd(l, s1, pr, s2, total) ==
    [stage1_us |-> Append(l.stage1_us, s1),
     processing_us |-> Append(l.processing_us, pr),
     stage2_us |-> Append(l.stage2_us, s2),
     total_us |-> Append(l.total_us, total)]

\* lines 240-245
StrategyAdd(j) ==
    /\ strat[j].pc = "add"
    /\ LET m == strat[j].msg
           stage2_us == SubU64(strat[j].t_end, m.processed_ns)
           stage1_us == SubU64(m.processed_ns, m.timestamp_ns)
           processing_us == stage2_us
           total_us == SubU64(strat[j].t_end, m.timestamp_ns)
       IN  /\ latencies' = LatencyAdd(latencies, stage1_us, processing_us,
                                      stage2_us, total_us)
           /\ recorded' = Append(recorded, <<m.producer_id, m.sequence, m.msg_type>>)
    /\ strat' = [strat EXCEPT ![j].pc = "inc"]
    /\ UNCHANGED <<ringVars, sideVars, cfg, scenario, stage1_queues, stage2_queues, stop_flag, produced, processed,
                   delivered, clock, prod, proc, ctl, endpoints, dropped>>

\* line 246: delivered++
StrategyInc(j) ==
    /\ strat[j].pc = "inc"
    /\ delivered' = delivered + 1
    /\ strat' = [strat EXCEPT ![j].pc = "loop"]
    /\ UNCHANGED <<ringVars, sideVars, cfg, scenario, stage1_queues, stage2_queues, stop_flag, produced, processed,
                   latencies, clock, prod, proc, ctl,
                   endpoints, dropped, recorded>>

(***************************************************************************)
(* The controller (main), lines 303-307                                    *)
(***************************************************************************)
\* line 303: stop_flag = true, after the monitoring loop (line 260 read
\* sec > cfg.duration_secs)
ControllerStop ==
    /\ ctl = "monitor"
    /\ mon.sec > cfg.duration_secs
    /\ stop_flag' = TRUE
    /\ ctl' = "join_producers"
    /\ UNCHANGED <<ringVars, sideVars, cfg, scenario, stage1_queues, stage2_queues, produced, processed,
                   delivered, latencies, clock, prod, proc, strat,
                   endpoints, dropped, recorded>>

\* line 305: for (auto& t : producers) t.join()
JoinProducers ==
    /\ ctl = "join_producers"
    /\ \A p \in Producers : prod[p].pc = "done"
    /\ ctl' = "join_processors"
    /\ UNCHANGED <<ringVars, sideVars, cfg, scenario, stage1_queues, stage2_queues, stop_flag, produced, processed,
                   delivered, latencies, clock, prod, proc, strat,
                   endpoints, dropped, recorded>>

\* line 306
JoinProcessors ==
    /\ ctl = "join_processors"
    /\ \A i \in Processors : proc[i].pc = "done"
    /\ ctl' = "join_strategies"
    /\ UNCHANGED <<ringVars, sideVars, cfg, scenario, stage1_queues, stage2_queues, stop_flag, produced, processed,
                   delivered, latencies, clock, prod, proc, strat,
                   endpoints, dropped, recorded>>

StrategiesJoinedNoWait == TRUE
\* line 307: t.join() returns when the strategy thread has ended
StrategiesJoined == \A j \in Strategies : strat[j].pc = "done"

\* line 307
JoinStrategies ==
    /\ ctl = "join_strategies"
    /\ StrategiesJoined
    /\ ctl' = "summary"
    /\ UNCHANGED <<ringVars, sideVars, cfg, scenario, stage1_queues, stage2_queues, stop_flag, produced, processed,
                   delivered, latencies, clock, prod, proc, strat,
                   endpoints, dropped, recorded>>

(***************************************************************************)
(* main from thread creation to the summary, lines 178-340                 *)
(***************************************************************************)
\* The thread the creation loop starts next: the lowest index not yet created.
NextUnborn(threads) ==
    CHOOSE x \in DOMAIN threads :
        /\ threads[x].pc = "unborn"
        /\ \A k \in DOMAIN threads : k < x => threads[k].pc # "unborn"

\* lines 178-200: producers.emplace_back(...), one thread per iteration; the
\* thread runs from then on.  After the last one main goes on to line 205.
SpawnProducers ==
    /\ ctl = "spawn_producers"
    /\ LET p == NextUnborn(prod)
       IN  /\ prod' = [prod EXCEPT ![p].pc = "loop"]
           /\ ctl' = IF p = cfg.producer_count - 1 THEN "spawn_processors" ELSE ctl
    /\ UNCHANGED <<ringVars, sideVars, cfg, scenario, stage1_queues,
                   stage2_queues, stop_flag, produced, processed, delivered,
                   latencies, clock, proc, strat, endpoints, dropped, recorded>>

\* lines 205-228: processors.emplace_back(...); then line 233
SpawnProcessors ==
    /\ ctl = "spawn_processors"
    /\ LET i == NextUnborn(proc)
       IN  /\ proc' = [proc EXCEPT ![i].pc = "loop"]
           /\ ctl' = IF i = cfg.processor_count - 1 THEN "spawn_strategies" ELSE ctl
    /\ UNCHANGED <<ringVars, sideVars, cfg, scenario, stage1_queues,
                   stage2_queues, stop_flag, produced, processed, delivered,
                   latencies, clock, prod, strat, endpoints, dropped, recorded>>

\* lines 233-252: strategies.emplace_back(...); then the monitoring loop
SpawnStrategies ==
    /\ ctl = "spawn_strategies"
    /\ LET j == NextUnborn(strat)
       IN  /\ strat' = [strat EXCEPT ![j].pc = "loop"]
           /\ ctl' = IF j = cfg.strategy_count - 1 THEN "monitor" ELSE ctl
    /\ UNCHANGED <<ringVars, sideVars, cfg, scenario, stage1_queues,
                   stage2_queues, stop_flag, produced, processed, delivered,
                   latencies, clock, prod, proc, endpoints, dropped, recorded>>

\* lines 260-262: sec <= cfg.duration_secs, sleep, p = produced.load()
MonitorLoadP ==
    /\ ctl = "monitor"
    /\ mon.sec <= cfg.duration_secs
    /\ mon' = [mon EXCEPT !.p = produced]
    /\ ctl' = "load_r"
    /\ UNCHANGED <<ringVars, log, summary, oob, mtx, sample, adds, pv, bench, cfg, scenario, stage1_queues,
                   stage2_queues, stop_flag, produced, processed, delivered,
                   latencies, clock, prod, proc, strat, endpoints, dropped, recorded>>

\* line 262: r = processed.load()
MonitorLoadR ==
    /\ ctl = "load_r"
    /\ mon' = [mon EXCEPT !.r = processed]
    /\ ctl' = "load_d"
    /\ UNCHANGED <<ringVars, log, summary, oob, mtx, sample, adds, pv, bench, cfg, scenario, stage1_queues,
                   stage2_queues, stop_flag, produced, processed, delivered,
                   latencies, clock, prod, proc, strat, endpoints, dropped, recorded>>

\* line 262: d = delivered.load()
MonitorLoadD ==
    /\ ctl = "load_d"
    /\ mon' = [mon EXCEPT !.d = delivered]
    /\ ctl' = "log"
    /\ UNCHANGED <<ringVars, log, summary, oob, mtx, sample, adds, pv, bench, cfg, scenario, stage1_queues,
                   stage2_queues, stop_flag, produced, processed, delivered,
                   latencies, clock, prod, proc, strat, endpoints, dropped, recorded>>

LostNowSigned(p, d, prev_prod, prev_del) == (p - d) - (prev_prod - prev_del)
\* line 268: uint64_t lost_now = (p - d) - (prev_prod - prev_del)
LostNow(p, d, prev_prod, prev_del) ==
    SubU64(SubU64(p, d), SubU64(prev_prod, prev_del))

\* lines 264-300: the deltas, lost_now, the prev_* locals, the ring sizes and
\* the log line (values are logged as counts; the program divides by 1e6)
MonitorLog ==
    /\ ctl = "log"
    /\ log' = Append(log,
          [sec |-> mon.sec,
           produced |-> SubU64(mon.p, mon.prev_prod),
           processed |-> SubU64(mon.r, mon.prev_proc),
           delivered |-> SubU64(mon.d, mon.prev_del),
           lost |-> LostNow(mon.p, mon.d, mon.prev_prod, mon.prev_del),
           stage1 |-> [i \in Processors |-> size(stage1_queues[i])],
           stage2 |-> [j \in Strategies |-> size(stage2_queues[j])]])
    /\ mon' = [mon EXCEPT !.prev_prod = mon.p, !.prev_proc = mon.r,
                          !.prev_del = mon.d, !.sec = mon.sec + 1]
    /\ ctl' = "monitor"
    /\ UNCHANGED <<ringVars, summary, oob, mtx, sample, adds, pv, bench, cfg, scenario, stage1_queues,
                   stage2_queues, stop_flag, produced, processed, delivered,
                   latencies, clock, prod, proc, strat, endpoints, dropped, recorded>>

\* The number of elements of v that are below x / at most x.
CountBelow(v, x) == Cardinality({k \in 1 .. Len(v) : v[k] < x})
CountAtMost(v, x) == Cardinality({k \in 1 .. Len(v) : v[k] <= x})

\* std::sort(v.begin(), v.end()), line 139: position k gets the element
\* that has fewer than k elements below it and at least k at most it.
Sort(v) ==
    [k \in 1 .. Len(v) |->
        CHOOSE x \in {v[i] : i \in 1 .. Len(v)} :
            CountBelow(v, x) < k /\ k <= CountAtMost(v, x)]

Min(a, b) == IF a <= b THEN a ELSE b

\* line 140: size_t idx = std::min((size_t)(p * v.size()), v.size() - 1),
\* with p given in hundredths (0.50 is 50); indices count from 0.
PercentileIdx(n, pct) == Min((pct * n) \div 100, n - 1)

percentileUnsorted(v, pct) ==
    IF v = <<>> THEN 0 ELSE v[PercentileIdx(Len(v), pct) + 1]

\* LatencyStats::percentile, lines 137-142: the value returned
percentile(v, pct) ==
    IF v = <<>> THEN 0 ELSE Sort(v)[PercentileIdx(Len(v), pct) + 1]

\* LatencyStats::percentile, lines 137-142: v after the call
PercentileLeaves(v) == IF v = <<>> THEN v ELSE Sort(v)

\* The values of p explored, in hundredths: 0.0, 0.50, 0.90, 0.99 (the
\* summary's) and 1.0.
Pcts == {0, 50, 90, 99, 100}

\* The series 100, 99, ..., 1: the values 1..100, not yet sorted.
Hundred == [k \in 1 .. 100 |-> 101 - k]

RECURSIVE SeqsUpTo(_)
SeqsUpTo(n) ==
    IF n = 0 THEN {<<>>}
    ELSE LET shorter == SeqsUpTo(n - 1)
         IN  shorter \cup { Append(w, x) : w \in shorter, x \in 0 .. MaxVal }

\* The series percentile is called on.
Series == SeqsUpTo(MaxLen) \cup {Hundred}

\* The caller's vector, line 137's v: any series within the bounds.
PercentileSeries ==
    /\ ~pv.held
    /\ \E v \in Series : pv' = [pv EXCEPT !.held = TRUE, !.v = v]
    /\ UNCHANGED <<pipeVars, ringVars, mon, log, summary, oob, mtx, sample, adds, bench>>

\* One call percentile(v, p), lines 137-142, with any p on the caller's
\* vector, which the call sorts in place; the summary calls it three times
\* on each vector (lines 322-340).
PercentileCall ==
    /\ pv.held
    /\ \E pct \in Pcts :
          pv' = [held |-> TRUE, called |-> TRUE, arg |-> pv.v, pct |-> pct,
                 v |-> PercentileLeaves(pv.v), ret |-> percentile(pv.v, pct)]
    /\ UNCHANGED <<pipeVars, ringVars, mon, log, summary, oob, mtx, sample, adds, bench>>

PctNext == PercentileSeries \/ PercentileCall

\* The three percentiles of one row of the summary, lines 322-325
SummaryRow(v) == <<percentile(v, 50), percentile(v, 90), percentile(v, 99)>>

\* lines 312-340: the counters and the twelve percentile calls, each of which
\* sorts its series in place
Summary ==
    /\ ctl = "summary"
    /\ summary' = [produced |-> produced, processed |-> processed,
                   delivered |-> delivered,
                   stage1 |-> SummaryRow(latencies.stage1_us),
                   process |-> SummaryRow(latencies.processing_us),
                   stage2 |-> SummaryRow(latencies.stage2_us),
                   total |-> SummaryRow(latencies.total_us)]
    /\ latencies' = [stage1_us |-> PercentileLeaves(latencies.stage1_us),
                     processing_us |-> PercentileLeaves(latencies.processing_us),
                     stage2_us |-> PercentileLeaves(latencies.stage2_us),
                     total_us |-> PercentileLeaves(latencies.total_us)]
    /\ ctl' = "exit"
    /\ UNCHANGED <<ringVars, mon, log, oob, mtx, sample, adds, pv, bench, cfg, scenario, stage1_queues,
                   stage2_queues, stop_flag, produced, processed, delivered,
                   clock, prod, proc, strat, endpoints, dropped, recorded>>

(***************************************************************************)
(* BM_SPSCQueue_Throughput, benchmarks/queue_benchmark.cpp lines 55-119.   *)
(* Its SPSCQueue (lines 12-40) has the push and pop of main.cpp; a call of *)
(* push or pop is one step here.                                           *)
(***************************************************************************)
\* the producer thread, lines 66-68: it leaves the wait once start_flag is set
BenchProducerWait ==
    /\ bench.producer = "wait"
    /\ bench.start_flag
    /\ bench' = [bench EXCEPT !.producer = "loop"]
    /\ UNCHANGED <<pipeVars, ringVars, mon, log, summary, oob, mtx, sample, adds, pv>>

\* line 69: while (!stop_flag.load(relaxed)); the thread function returns
\* when the loop ends (line 76)
BenchProducerLoop ==
    /\ bench.producer = "loop"
    /\ bench' = [bench EXCEPT !.producer = IF bench.stop_flag THEN "done" ELSE "push"]
    /\ UNCHANGED <<pipeVars, ringVars, mon, log, summary, oob, mtx, sample, adds, pv>>

\* lines 70-74: queue.push(msg) with msg value-initialised, count.fetch_add(1)
\* when it returned true
BenchProducerPush ==
    /\ bench.producer = "push"
    /\ bench.count < MaxOps
    /\ LET head == PushLoadHead(bench.queue)
           next == PushNext(head)
       IN  IF PushFull(bench.queue, next)
           THEN bench' = [bench EXCEPT !.producer = "loop"]
           ELSE bench' = [bench EXCEPT
                    !.producer = "loop",
                    !.queue = PushStore(PushWrite(bench.queue, head, 0), next),
                    !.count = bench.count + 1]
    /\ UNCHANGED <<pipeVars, ringVars, mon, log, summary, oob, mtx, sample, adds, pv>>

\* the consumer thread, lines 81-83
BenchConsumerWait ==
    /\ bench.consumer = "wait"
    /\ bench.start_flag
    /\ bench' = [bench EXCEPT !.consumer = "loop"]
    /\ UNCHANGED <<pipeVars, ringVars, mon, log, summary, oob, mtx, sample, adds, pv>>

\* line 84; the thread function returns when the loop ends (line 89)
BenchConsumerLoop ==
    /\ bench.consumer = "loop"
    /\ bench' = [bench EXCEPT !.consumer = IF bench.stop_flag THEN "done" ELSE "pop"]
    /\ UNCHANGED <<pipeVars, ringVars, mon, log, summary, oob, mtx, sample, adds, pv>>

\* lines 85-87: queue.pop(msg)
BenchConsumerPop ==
    /\ bench.consumer = "pop"
    /\ LET tail == PopLoadTail(bench.queue)
       IN  IF PopEmpty(bench.queue, tail)
           THEN bench' = [bench EXCEPT !.consumer = "loop"]
           ELSE bench' = [bench EXCEPT !.consumer = "loop",
                                       !.queue = PopStore(bench.queue, tail)]
    /\ UNCHANGED <<pipeVars, ringVars, mon, log, summary, oob, mtx, sample, adds, pv>>

\* lines 91-93: another iteration of for (auto _ : state); count.store(0)
BenchReset ==
    /\ bench.pc = "reset"
    /\ bench.iter < BenchIterations
    /\ bench' = [bench EXCEPT !.count = 0, !.pc = "start"]
    /\ UNCHANGED <<pipeVars, ringVars, mon, log, summary, oob, mtx, sample, adds, pv>>

\* line 96: start_flag.store(true, release)
BenchStart ==
    /\ bench.pc = "start"
    /\ bench' = [bench EXCEPT !.start_flag = TRUE, !.pc = "measure"]
    /\ UNCHANGED <<pipeVars, ringVars, mon, log, summary, oob, mtx, sample, adds, pv>>

\* lines 97-103: the measured window (sleep_for) ends, stop_flag.store(true)
BenchStop ==
    /\ bench.pc = "measure"
    /\ bench' = [bench EXCEPT !.stop_flag = TRUE, !.pc = "report"]
    /\ UNCHANGED <<pipeVars, ringVars, mon, log, summary, oob, mtx, sample, adds, pv>>

\* lines 105-109: ops = count.load(), reported to the benchmark state
BenchReport ==
    /\ bench.pc = "report"
    /\ bench' = [bench EXCEPT !.ops = bench.count, !.pc = "clear_stop"]
    /\ UNCHANGED <<pipeVars, ringVars, mon, log, summary, oob, mtx, sample, adds, pv>>

\* line 112: stop_flag.store(false)
BenchClearStop ==
    /\ bench.pc = "clear_stop"
    /\ bench' = [bench EXCEPT !.stop_flag = FALSE, !.pc = "clear_start"]
    /\ UNCHANGED <<pipeVars, ringVars, mon, log, summary, oob, mtx, sample, adds, pv>>

\* line 113: start_flag.store(false); the iteration is over
BenchClearStart ==
    /\ bench.pc = "clear_start"
    /\ bench' = [bench EXCEPT !.start_flag = FALSE, !.iter = bench.iter + 1,
                              !.pc = "reset"]
    /\ UNCHANGED <<pipeVars, ringVars, mon, log, summary, oob, mtx, sample, adds, pv>>

\* line 116, after the last iteration: stop_flag = true
BenchFinalStop ==
    /\ bench.pc = "reset"
    /\ bench.iter = BenchIterations
    /\ bench' = [bench EXCEPT !.stop_flag = TRUE, !.pc = "join"]
    /\ UNCHANGED <<pipeVars, ringVars, mon, log, summary, oob, mtx, sample, adds, pv>>

\* lines 117-118: producer.join(); consumer.join()
BenchJoin ==
    /\ bench.pc = "join"
    /\ bench.producer = "done"
    /\ bench.consumer = "done"
    /\ bench' = [bench EXCEPT !.pc = "exit"]
    /\ UNCHANGED <<pipeVars, ringVars, mon, log, summary, oob, mtx, sample, adds, pv>>

BenchNext ==
    \/ BenchProducerWait
    \/ BenchProducerLoop
    \/ BenchProducerPush
    \/ BenchConsumerWait
    \/ BenchConsumerLoop
    \/ BenchConsumerPop
    \/ BenchReset
    \/ BenchStart
    \/ BenchStop
    \/ BenchReport
    \/ BenchClearStop
    \/ BenchClearStart
    \/ BenchFinalStop
    \/ BenchJoin

(***************************************************************************)
(* load_config and routing entries that index no ring                      *)
(***************************************************************************)
\* load_config, lines 83-110: the routing entries are stored as read from
\* the file (lines 100, 106); no value is rejected.
ConfigAccepted(c) == TRUE

\* line 161: Config cfg = load_config(config_path), then lines 164-173
LoadConfig ==
    /\ ctl = "load_config"
    /\ ctl' = IF ConfigAccepted(cfg) THEN "spawn_producers" ELSE "refused"
    /\ UNCHANGED <<ringVars, sideVars, cfg, scenario, stage1_queues,
                   stage2_queues, stop_flag, produced, processed, delivered,
                   latencies, clock, prod, proc, strat, endpoints, dropped, recorded>>

\* The process is killed (segmentation fault): no thread takes another step.
Killed(threads) == [x \in DOMAIN threads |-> [threads[x] EXCEPT !.pc = "dead"]]

\* lines 192-193 with proc_id outside the vector: stage1_queues[proc_id] reads
\* past the vector's storage and push runs on whatever that memory holds.
\* The behaviour is undefined: the process is killed, or push returns true
\* or false after touching memory that is no ring of the pipeline.
ProducerPushOutOfRange(p) ==
    /\ prod[p].pc = "push_head"
    /\ prod[p].proc_id \notin Processors
    /\ oob' = TRUE
    /\ \/ /\ prod' = Killed(prod)
          /\ proc' = Killed(proc)
          /\ strat' = Killed(strat)
          /\ ctl' = "crashed"
       \/ /\ prod' = [prod EXCEPT ![p].pc = "inc",
                                   ![p].sent = Append(@, PushResult(prod[p], TRUE))]
          /\ UNCHANGED <<proc, strat, ctl>>
       \/ /\ prod' = [prod EXCEPT ![p].pc = "loop", ![p].failed = TRUE,
                                   ![p].sent = Append(@, PushResult(prod[p], FALSE))]
          /\ UNCHANGED <<proc, strat, ctl>>
    /\ UNCHANGED <<ringVars, mon, log, summary, mtx, sample, adds, pv, bench, cfg, scenario, stage1_queues,
                   stage2_queues, stop_flag, produced, processed, delivered,
                   latencies, clock, endpoints, dropped, recorded>>

\* line 218 with strat_id outside the vector: as above for stage2_queues.
ProcessorPushOutOfRange(i) ==
    /\ proc[i].pc = "push_head"
    /\ proc[i].strat_id \notin Strategies
    /\ oob' = TRUE
    /\ \/ /\ prod' = Killed(prod)
          /\ proc' = Killed(proc)
          /\ strat' = Killed(strat)
          /\ ctl' = "crashed"
       \/ /\ proc' = [proc EXCEPT ![i].pc = "inc"]
          /\ UNCHANGED <<prod, strat, ctl>>
       \/ /\ proc' = [proc EXCEPT ![i].pc = "retry"]
          /\ UNCHANGED <<prod, strat, ctl>>
    /\ UNCHANGED <<ringVars, mon, log, summary, mtx, sample, adds, pv, bench, cfg, scenario, stage1_queues,
                   stage2_queues, stop_flag, produced, processed, delivered,
                   latencies, clock, endpoints, dropped, recorded>>

(***************************************************************************)
(* LatencyStats::add called by several strategy threads, lines 129-135 and *)
(* 245-246, each statement a step.  What a strategy popped is replaced by  *)
(* the arguments of its call: the number of the call, four times.          *)
(***************************************************************************)
MutexIgnored == TRUE
\* line 130: std::lock_guard<std::mutex> lock(mtx) returns when mtx is free
MutexFree == mtx = Unlocked

\* lines 237-245: the strategy has a message and calls latencies.add(...)
AddCall(j) ==
    /\ strat[j].pc = "loop"
    /\ ~StrategyExit(j)
    /\ adds < MaxCalls
    /\ adds' = adds + 1
    /\ sample' = [sample EXCEPT ![j] = <<adds + 1, adds + 1, adds + 1, adds + 1>>]
    /\ strat' = [strat EXCEPT ![j].pc = "add_lock"]
    /\ UNCHANGED <<ringVars, mon, log, summary, oob, mtx, pv, bench, cfg, scenario,
                   stage1_queues, stage2_queues, stop_flag, produced, processed,
                   delivered, latencies, clock, prod, proc, ctl, endpoints,
                   dropped, recorded>>

\* line 237 read stop set
AddExit(j) ==
    /\ strat[j].pc = "loop"
    /\ StrategyExit(j)
    /\ strat' = [strat EXCEPT ![j].pc = "done"]
    /\ UNCHANGED <<ringVars, sideVars, cfg, scenario,
                   stage1_queues, stage2_queues, stop_flag, produced, processed,
                   delivered, latencies, clock, prod, proc, ctl, endpoints,
                   dropped, recorded>>

\* line 130
AddLock(j) ==
    /\ strat[j].pc = "add_lock"
    /\ MutexFree
    /\ mtx' = j
    /\ strat' = [strat EXCEPT ![j].pc = "add_s1"]
    /\ UNCHANGED <<ringVars, mon, log, summary, oob, sample, adds, pv, bench, cfg, scenario,
                   stage1_queues, stage2_queues, stop_flag, produced, processed,
                   delivered, latencies, clock, prod, proc, ctl, endpoints,
                   dropped, recorded>>

\* line 131: stage1_us.push_back(s1)
AddStage1(j) ==
    /\ strat[j].pc = "add_s1"
    /\ latencies' = [latencies EXCEPT !.stage1_us = Append(@, sample[j][1])]
    /\ strat' = [strat EXCEPT ![j].pc = "add_proc"]
    /\ UNCHANGED <<ringVars, sideVars, cfg, scenario,
                   stage1_queues, stage2_queues, stop_flag, produced, processed,
                   delivered, clock, prod, proc, ctl, endpoints,
                   dropped, recorded>>

\* line 132: processing_us.push_back(proc)
AddProcessing(j) ==
    /\ strat[j].pc = "add_proc"
    /\ latencies' = [latencies EXCEPT !.processing_us = Append(@, sample[j][2])]
    /\ strat' = [strat EXCEPT ![j].pc = "add_s2"]
    /\ UNCHANGED <<ringVars, sideVars, cfg, scenario,
                   stage1_queues, stage2_queues, stop_flag, produced, processed,
                   delivered, clock, prod, proc, ctl, endpoints,
                   dropped, recorded>>

\* line 133: stage2_us.push_back(s2)
AddStage2(j) ==
    /\ strat[j].pc = "add_s2"
    /\ latencies' = [latencies EXCEPT !.stage2_us = Append(@, sample[j][3])]
    /\ strat' = [strat EXCEPT ![j].pc = "add_total"]
    /\ UNCHANGED <<ringVars, sideVars, cfg, scenario,
                   stage1_queues, stage2_queues, stop_flag, produced, processed,
                   delivered, clock, prod, proc, ctl, endpoints,
                   dropped, recorded>>

\* line 134: total_us.push_back(total)
AddTotal(j) ==
    /\ strat[j].pc = "add_total"
    /\ latencies' = [latencies EXCEPT !.total_us = Append(@, sample[j][4])]
    /\ strat' = [strat EXCEPT ![j].pc = "add_unlock"]
    /\ UNCHANGED <<ringVars, sideVars, cfg, scenario,
                   stage1_queues, stage2_queues, stop_flag, produced, processed,
                   delivered, clock, prod, proc, ctl, endpoints,
                   dropped, recorded>>

\* line 135: the lock_guard releases mtx; add returns, then line 246
AddUnlock(j) ==
    /\ strat[j].pc = "add_unlock"
    /\ mtx' = Unlocked
    /\ strat' = [strat EXCEPT ![j].pc = "inc"]
    /\ UNCHANGED <<ringVars, mon, log, summary, oob, sample, adds, pv, bench, cfg, scenario,
                   stage1_queues, stage2_queues, stop_flag, produced, processed,
                   delivered, latencies, clock, prod, proc, ctl, endpoints,
                   dropped, recorded>>

(***************************************************************************)
(* Specifications                                                          *)
(***************************************************************************)
\* The pipeline, for every configuration within the bounds.
\* Stage-1 fan-in (scenarios S1 and S3 of the specification): 1..MaxProducers
\* producers, one processor, one strategy, all routes zero, one msg_type.
\* duration_secs is 0: the monitoring loop has no iteration and main sets the
\* stop flag at a moment of its own choosing (time is not modelled).
\* With the ring shared by several producers the clock stays at one value
\* and MaxMsgs - 1 messages are built; with one producer the clock may
\* advance up to MaxClock and MaxMsgs messages are built.
Stage1FanIn ==
    { c \in Configs : /\ InRange(c)
                      /\ c.duration_secs = 0
                      /\ c.processor_count = 1
                      /\ c.strategy_count = 1 }

Init ==
    /\ \E c \in Stage1FanIn :
          PipeInit(c, [horizon |-> IF c.producer_count = 1 THEN MaxClock ELSE 1,
                       max_type |-> 0,
                       max_msgs |-> IF c.producer_count = 1 THEN MaxMsgs
                                                            ELSE MaxMsgs - 1])
    /\ RingInit

Next ==
    \/ \E p \in Producers : ProducerLoop(p)
    \/ \E p \in Producers : ProducerBuild(p)
    \/ \E p \in Producers : ProducerPushHead(p)
    \/ \E p \in Producers : ProducerPushTail(p)
    \/ \E p \in Producers : ProducerPushWrite(p)
    \/ \E p \in Producers : ProducerPushStore(p)
    \/ \E p \in Producers : ProducerInc(p)
    \/ \E i \in Processors : ProcessorLoop(i)
    \/ \E i \in Processors : ProcessorPopHead(i)
    \/ \E i \in Processors : ProcessorPopCopy(i)
    \/ \E i \in Processors : ProcessorPopStore(i)
    \/ \E i \in Processors : ProcessorStamp(i)
    \/ \E i \in Processors : ProcessorPushHead(i)
    \/ \E i \in Processors : ProcessorPushTail(i)
    \/ \E i \in Processors : ProcessorRetry(i)
    \/ \E i \in Processors : ProcessorPushWrite(i)
    \/ \E i \in Processors : ProcessorPushStore(i)
    \/ \E i \in Processors : ProcessorInc(i)
    \/ \E j \in Strategies : StrategyLoop(j)
    \/ \E j \in Strategies : StrategyPopHead(j)
    \/ \E j \in Strategies : StrategyPopCopy(j)
    \/ \E j \in Strategies : StrategyPopStore(j)
    \/ \E j \in Strategies : StrategyClock(j)
    \/ \E j \in Strategies : StrategyAdd(j)
    \/ \E j \in Strategies : StrategyInc(j)
    \/ ControllerStop
    \/ JoinProducers
    \/ JoinProcessors
    \/ JoinStrategies

Spec == Init /\ [][Next]_vars

\* Stage-2 fan-in: one producer drawing every msg_type of the model,
\* MaxProcessors processors reached through any in-range stage1_routing, one
\* strategy.  The clock stays at one value; MaxMsgs - 1 messages are built.
Stage2FanIn ==
    { c \in Configs : /\ InRange(c)
                      /\ c.duration_secs = 0
                      /\ c.producer_count = 1
                      /\ c.processor_count = MaxProcessors
                      /\ c.strategy_count = 1 }

InitStage2 ==
    /\ \E c \in Stage2FanIn : PipeInit(c, [horizon |-> 1, max_type |-> MaxType, max_msgs |-> MaxMsgs - 1])
    /\ RingInit

SpecStage2 == InitStage2 /\ [][Next]_vars

\* Type-directed sharding with no ring shared: one producer drawing every
\* msg_type of the model, MaxProcessors processors, MaxStrategies strategies
\* and every in-range routing under which each Stage-2 ring is pushed into
\* by one processor, up to the numbering of processors and strategies
\* (msg_type 0 goes to processor 0 and strategy 0).  The clock stays at one
\* value; MaxMsgs - 1 messages are built.
Feeds(c, j) == {c.stage1_routing[t] : t \in {u \in Types : c.stage2_routing[u] = j}}

Sharded ==
    { c \in Configs : /\ InRange(c)
                      /\ c.duration_secs = 0
                      /\ c.producer_count = 1
                      /\ c.processor_count = MaxProcessors
                      /\ c.strategy_count = MaxStrategies
                      /\ c.stage1_routing[0] = 0
                      /\ c.stage2_routing[0] = 0
                      /\ \A j \in 0 .. (c.strategy_count - 1) :
                            Cardinality(Feeds(c, j)) <= 1 }

InitSharded ==
    /\ \E c \in Sharded : PipeInit(c, [horizon |-> 1, max_type |-> MaxType, max_msgs |-> MaxMsgs - 1])
    /\ RingInit

SpecSharded == InitSharded /\ [][Next]_vars

\* One ring with its one pusher and its one popper.
InitRing ==
    /\ PipeInit(IdentityConfig, [horizon |-> 1, max_type |-> 0, max_msgs |-> 0])
    /\ RingInit

SpecRing == InitRing /\ [][RingNext]_vars

\* One ring and one thread that makes every call.
SpecSeq == InitRing /\ [][SeqNext]_vars

\* BM_SPSCQueue_Throughput with its producer and consumer threads.
SpecBench == InitRing /\ [][BenchNext]_vars

\* LatencyStats::percentile called on every series and p within the bounds.
SpecPct == InitRing /\ [][PctNext]_vars

(***************************************************************************)
(* Scheduling.  Every worker is a std::thread of its own and main is the   *)
(* controller: a thread that can take a step is eventually scheduled.      *)
(***************************************************************************)
\* One step of producer thread p, lines 184-197.
ProducerStep(p) ==
    \/ ProducerLoop(p)
    \/ ProducerBuild(p)
    \/ ProducerPushHead(p)
    \/ ProducerPushTail(p)
    \/ ProducerPushWrite(p)
    \/ ProducerPushStore(p)
    \/ ProducerInc(p)

\* One step of processor thread i, lines 209-225.
ProcessorStep(i) ==
    \/ ProcessorLoop(i)
    \/ ProcessorPopHead(i)
    \/ ProcessorPopCopy(i)
    \/ ProcessorPopStore(i)
    \/ ProcessorStamp(i)
    \/ ProcessorPushHead(i)
    \/ ProcessorPushTail(i)
    \/ ProcessorRetry(i)
    \/ ProcessorPushWrite(i)
    \/ ProcessorPushStore(i)
    \/ ProcessorInc(i)

\* One step of strategy thread j, lines 237-249.
StrategyStep(j) ==
    \/ StrategyLoop(j)
    \/ StrategyPopHead(j)
    \/ StrategyPopCopy(j)
    \/ StrategyPopStore(j)
    \/ StrategyClock(j)
    \/ StrategyAdd(j)
    \/ StrategyInc(j)

\* One step of main, lines 303-307.
ControllerStep ==
    \/ ControllerStop
    \/ JoinProducers
    \/ JoinProcessors
    \/ JoinStrategies

Fairness ==
    /\ \A p \in 0 .. (MaxProducers - 1) : WF_vars(p \in Producers /\ ProducerStep(p))
    /\ \A i \in 0 .. (MaxProcessors - 1) : WF_vars(i \in Processors /\ ProcessorStep(i))
    /\ \A j \in 0 .. (MaxStrategies - 1) : WF_vars(j \in Strategies /\ StrategyStep(j))
    /\ WF_vars(ControllerStep)

\* The 1-1-1 pipeline under fair scheduling, with enough messages to fill
\* both rings while the processor holds one more and the producer is turned
\* away with yet another.
InitLive ==
    /\ PipeInit(IdentityConfig, [horizon |-> 1, max_type |-> 0,
                                 max_msgs |-> 2 * Capacity])
    /\ RingInit

SpecLive == InitLive /\ [][Next]_vars /\ Fairness

\* The whole run of main for the 1-1-1 pipeline with all routes zero: no
\* thread exists yet, main creates them, monitors for duration_secs
\* intervals, stops, joins and writes the summary.  Capacity messages are
\* built when there is no monitor interval (enough to fill the Stage-2 ring
\* and keep the processor retrying), Capacity - 1 otherwise.
LifeConfigs ==
    { c \in Configs : /\ InRange(c)
                      /\ c.producer_count = 1
                      /\ c.processor_count = 1
                      /\ c.strategy_count = 1 }

InitLife ==
    /\ \E c \in LifeConfigs :
          PipeInitAt(c, [horizon |-> 1, max_type |-> 0,
                         max_msgs |-> IF c.duration_secs = 0 THEN Capacity
                                                             ELSE Capacity - 1],
                     "unborn", "spawn_producers")
    /\ RingInit

NextLife ==
    \/ SpawnProducers
    \/ SpawnProcessors
    \/ SpawnStrategies
    \/ MonitorLoadP
    \/ MonitorLoadR
    \/ MonitorLoadD
    \/ MonitorLog
    \/ Summary
    \/ Next

SpecLife == InitLife /\ [][NextLife]_vars

\* main from load_config on, for the 1-1-1 pipeline and every routing table
\* a configuration file can give it, in range or not; duration_secs is 0, so
\* the monitoring loop has no iteration.
LoadConfigs ==
    { c \in Configs : /\ c.duration_secs = 0
                      /\ c.producer_count = 1
                      /\ c.processor_count = 1
                      /\ c.strategy_count = 1 }

InitLoad ==
    /\ \E c \in LoadConfigs :
          PipeInitAt(c, [horizon |-> 1, max_type |-> MaxType,
                         max_msgs |-> IF InRange(c) THEN Capacity ELSE Capacity - 1],
                     "unborn", "load_config")
    /\ RingInit

NextLoad ==
    \/ LoadConfig
    \/ \E p \in Producers : ProducerPushOutOfRange(p)
    \/ \E i \in Processors : ProcessorPushOutOfRange(i)
    \/ SpawnProducers
    \/ SpawnProcessors
    \/ SpawnStrategies
    \/ Summary
    \/ Next

SpecLoad == InitLoad /\ [][NextLoad]_vars

\* MaxStrategies strategies that call add concurrently, up to MaxCalls calls
\* in all; the producer and the processor build and forward no message.
StatsConfig == [IdentityConfig EXCEPT !.strategy_count = MaxStrategies]

InitStats ==
    /\ PipeInit(StatsConfig, [horizon |-> 1, max_type |-> 0, max_msgs |-> 0])
    /\ RingInit

NextStats ==
    \/ \E p \in Producers : ProducerLoop(p)
    \/ \E i \in Processors : ProcessorLoop(i)
    \/ \E i \in Processors : ProcessorPopHead(i)
    \/ \E j \in Strategies : AddCall(j)
    \/ \E j \in Strategies : AddExit(j)
    \/ \E j \in Strategies : AddLock(j)
    \/ \E j \in Strategies : AddStage1(j)
    \/ \E j \in Strategies : AddProcessing(j)
    \/ \E j \in Strategies : AddStage2(j)
    \/ \E j \in Strategies : AddTotal(j)
    \/ \E j \in Strategies : AddUnlock(j)
    \/ \E j \in Strategies : StrategyInc(j)
    \/ ControllerStop
    \/ JoinProducers
    \/ JoinProcessors
    \/ JoinStrategies

SpecStats == InitStats /\ [][NextStats]_vars

(***************************************************************************)
(* Properties of the ring (checked under SpecRing)                         *)
(***************************************************************************)
IsPrefix(a, b) ==
    /\ Len(a) <= Len(b)
    /\ \A k \in 1 .. Len(a) : a[k] = b[k]

\* C1: with one pushing and one popping thread, under every interleaving of
\* the loads and stores of push and pop, the items returned by successful
\* pops are a prefix of the items accepted by successful pushes.
T_C1_FifoPrefix == IsPrefix(popped, pushed)

\* C1 witness: head has wrapped around, items have been returned, and a push
\* and a pop are both under way.
W_C1_WrappedConcurrent ==
    /\ Len(popped) >= Capacity - 1
    /\ q.head < q.tail
    /\ pusher.pc = "push_store"
    /\ popper.pc = "pop_copy"

\* C3: head and tail stay in [0, Capacity); the accepted and not yet popped
\* items number (head - tail) mod Capacity, at most Capacity - 1; and every
\* slot from tail up to head still holds the item pushed into it.
T_C3_RingInvariant ==
    /\ q.head \in Slots
    /\ q.tail \in Slots
    /\ Len(pushed) - Len(popped) = (q.head - q.tail) % Capacity
    /\ Len(pushed) - Len(popped) <= Capacity - 1
    /\ \A k \in 0 .. (Len(pushed) - Len(popped) - 1) :
          q.buffer[(q.tail + k) % Capacity] = pushed[Len(popped) + k + 1]

\* C3 witness: the ring is full (Capacity - 1 items) across the wrap-around
\* and the pusher is inside another push.
W_C3_FullWrapped ==
    /\ Len(pushed) - Len(popped) = Capacity - 1
    /\ q.head < q.tail
    /\ pusher.pc = "push_tail"

(***************************************************************************)
(* Properties of the pipeline                                              *)
(***************************************************************************)
RECURSIVE SumSize(_, _)
SumSize(queues, S) ==
    IF S = {} THEN 0
    ELSE LET i == CHOOSE x \in S : TRUE
         IN  size(queues[i]) + SumSize(queues, S \ {i})

\* The messages the rings hold, as size() counts them.
Held == SumSize(stage1_queues, Processors) + SumSize(stage2_queues, Strategies)

\* C2: every Stage-1 and every Stage-2 ring has at most one thread that ever
\* stores its head (pushes) and at most one that ever stores its tail (pops).
CE_C2_SingleWriter ==
    /\ \A i \in Processors : /\ Cardinality(endpoints.head1[i]) <= 1
                             /\ Cardinality(endpoints.tail1[i]) <= 1
    /\ \A j \in Strategies : /\ Cardinality(endpoints.head2[j]) <= 1
                             /\ Cardinality(endpoints.tail2[j]) <= 1

\* C4: in every reachable state produced >= processed >= delivered.
CE_C4_CounterOrder == produced >= processed /\ processed >= delivered

\* C5: once all workers are joined, delivered <= processed <= produced and
\* produced - delivered is exactly what the rings still hold plus what the
\* processors dropped on stop.
CE_C5_JoinedAccounting ==
    ctl = "summary" =>
        /\ delivered <= processed
        /\ processed <= produced
        /\ produced - delivered = Held + dropped

\* C6: no two recorded messages carry the same (producer_id, sequence).
CE_C6_UniqueDelivery ==
    \A a, b \in 1 .. Len(recorded) :
        a # b => <<recorded[a][1], recorded[a][2]>> # <<recorded[b][1], recorded[b][2]>>

CE_C8_RetrySameMessage ==
    [][\A p \in Producers :
          (prod[p].pc = "build" /\ prod[p].failed /\ prod'[p].pc = "push_head") =>
              /\ prod'[p].msg.msg_type = prod[p].msg.msg_type
              /\ prod'[p].msg.sequence = prod[p].msg.sequence
              /\ prod'[p].proc_id = prod[p].proc_id]_vars

\* C8 amended: a push that finds the ring full leaves the rings and produced
\* as they were, and the producer goes back to the stop check; if it goes
\* on, the message it attempts next is a new one, with the next sequence
\* value: the message that did not fit is never attempted again.
T_C8_NewMessageAfterFull ==
    [][\A p \in Producers :
          /\ (prod[p].pc = "push_tail" /\ prod'[p].pc = "loop") =>
                /\ stage1_queues' = stage1_queues
                /\ produced' = produced
                /\ prod'[p].failed
          /\ (prod[p].pc = "build" /\ prod[p].failed /\ prod'[p].pc = "push_head") =>
                /\ prod'[p].msg.sequence = prod[p].msg.sequence + 1
                /\ prod'[p].msg.producer_id = p
                /\ prod'[p].msg.timestamp_ns >= prod[p].msg.timestamp_ns]_vars

\* C8 witness: a producer whose last push found the ring full has built and
\* is pushing the next message.
W_C8_BuiltAfterFull ==
    \E p \in Producers :
        /\ prod[p].pc = "push_head"
        /\ prod[p].msg.sequence = Capacity
        /\ produced = Capacity - 1
        /\ size(stage1_queues[prod[p].proc_id]) < Capacity - 1

\* C9: a processor that found the Stage-2 ring full and reads stop unset
\* pushes the same message again; if it reads stop set it ends at once, no
\* ring and no counter changes; processed changes only by one, by the
\* processed++ that follows a successful Stage-2 push, and that increment
\* is the only step a processor takes after such a push.
T_C9_RetryOrDrop ==
    [][\A i \in Processors :
          /\ (proc[i].pc = "retry" /\ proc'[i] # proc[i]) =>
                /\ stage1_queues' = stage1_queues
                /\ stage2_queues' = stage2_queues
                /\ processed' = processed
                /\ IF stop_flag
                   THEN proc'[i].pc = "done" /\ dropped' = dropped + 1
                   ELSE /\ proc'[i].pc = "push_head"
                        /\ proc'[i].msg = proc[i].msg
                        /\ proc'[i].strat_id = proc[i].strat_id
          /\ (proc'[i].pc = "inc" /\ proc[i].pc # "inc") =>
                /\ proc[i].pc = "push_store"
                /\ stage2_queues'[proc[i].strat_id].head = proc[i].next
          /\ (proc[i].pc = "inc" /\ proc'[i] # proc[i]) =>
                /\ processed' = processed + 1
                /\ proc'[i].pc = "loop"
          /\ (processed' # processed) =>
                \E k \in Processors : proc[k].pc = "inc" /\ proc'[k].pc = "loop"]_vars

\* C9 witness: a processor has ended on stop with a message in hand, after
\* others of its messages were pushed and counted.
W_C9_DroppedOnStop ==
    \E i \in Processors :
        /\ proc[i].pc = "done"
        /\ dropped = 1
        /\ processed = Capacity - 1
        /\ proc[i].msg.sequence = Capacity - 1

\* C10 as stated: a strategy exits only with stop set and its own ring empty.
CE_C10_ExitWhenDrained ==
    [][\A j \in Strategies :
          (strat[j].pc # "done" /\ strat'[j].pc = "done") =>
              /\ stop_flag
              /\ size(stage2_queues[j]) = 0]_vars

\* C10 amended: a strategy exits only at the flag check at the top of its
\* loop and only with stop set; a strategy that reads stop set there exits
\* at once without looking at its ring, which stays as it is.
T_C10_ExitOnFlagAlone ==
    [][\A j \in Strategies :
          /\ (strat[j].pc # "done" /\ strat'[j].pc = "done") =>
                strat[j].pc = "loop" /\ stop_flag
          /\ (strat[j].pc = "loop" /\ stop_flag /\ strat'[j] # strat[j]) =>
                /\ strat'[j].pc = "done"
                /\ stage2_queues' = stage2_queues
                /\ delivered' = delivered]_vars

\* C10 witness: all workers are joined and a strategy's ring still holds
\* messages a processor pushed and counted.
W_C10_ExitedWithBacklog ==
    /\ ctl = "summary"
    /\ \E j \in Strategies : size(stage2_queues[j]) > 0
    /\ processed > delivered

(***************************************************************************)
(* Shutdown (checked under SpecLive)                                       *)
(***************************************************************************)
\* C11: once the stop flag is set, under fair scheduling every producer,
\* processor and strategy thread exits and the three join loops complete
\* (the controller reaches the summary), whatever the rings hold; a worker
\* that found its ring full or empty reads the flag next and, with the flag
\* set, exits without another ring operation.
T_C11_StopLeadsToJoined ==
    /\ stop_flag ~> (ctl = "summary")
    /\ [][\A i \in Processors :
            (proc[i].pc = "retry" /\ stop_flag /\ proc'[i] # proc[i]) =>
                proc'[i].pc = "done"]_vars
    /\ [][\A p \in Producers :
            (prod[p].pc = "loop" /\ stop_flag /\ prod'[p] # prod[p]) =>
                prod'[p].pc = "done"]_vars

\* C11 witness: stop is set while both rings are full, the processor is
\* retrying its Stage-2 push and the producer has just found its ring full.
W_C11_StopWithFullRings ==
    /\ stop_flag
    /\ ctl = "join_producers"
    /\ \A i \in Processors : size(stage1_queues[i]) = Capacity - 1
    /\ \A j \in Strategies : size(stage2_queues[j]) = Capacity - 1
    /\ \E i \in Processors : proc[i].pc = "retry"
    /\ \E p \in Producers : prod[p].pc = "loop" /\ prod[p].failed

(***************************************************************************)
(* The run of main (checked under SpecLife)                                *)
(***************************************************************************)
Pushing == {"push_head", "push_tail", "push_write", "push_store", "inc"}

\* C12: strategy threads are created first, then processor threads, then
\* producer threads: a processor exists only when every strategy does, a
\* producer exists only when every processor does, and no producer is pushing
\* while a processor or a strategy has not been created.
CE_C12_LeavesFirst ==
    /\ (\E i \in Processors : proc[i].pc # "unborn") =>
           \A j \in Strategies : strat[j].pc # "unborn"
    /\ (\E p \in Producers : prod[p].pc # "unborn") =>
           \A i \in Processors : proc[i].pc # "unborn"
    /\ (\E p \in Producers : prod[p].pc \in Pushing) =>
           /\ \A i \in Processors : proc[i].pc # "unborn"
           /\ \A j \in Strategies : strat[j].pc # "unborn"

\* The controller's phases in program order; the four positions of one
\* monitor interval share a rank.
PhaseRank(c) ==
    CASE c = "spawn_producers" -> 0
      [] c = "spawn_processors" -> 1
      [] c = "spawn_strategies" -> 2
      [] c \in {"monitor", "load_r", "load_d", "log"} -> 3
      [] c = "join_producers" -> 4
      [] c = "join_processors" -> 5
      [] c = "join_strategies" -> 6
      [] c = "summary" -> 7
      [] c = "exit" -> 8

\* C13: the controller's phase never goes back and moves one phase at a
\* time; the stop flag changes once, from unset to set, after the last
\* monitor interval, and is never cleared; producers are joined before
\* processors and processors before strategies, each join after all threads
\* of the kind have ended; the summary sorts and reads the latency series
\* only after every strategy thread has ended, and no series changes after.
T_C13_OneWayPhases ==
    [][/\ PhaseRank(ctl') >= PhaseRank(ctl)
       /\ PhaseRank(ctl') <= PhaseRank(ctl) + 1
       /\ stop_flag => stop_flag'
       /\ (stop_flag' # stop_flag) =>
             /\ ctl = "monitor" /\ ctl' = "join_producers"
             /\ mon.sec = cfg.duration_secs + 1
             /\ Len(log) = cfg.duration_secs
       /\ PhaseRank(ctl) >= 4 => stop_flag
       /\ (ctl = "join_producers" /\ ctl' # ctl) =>
             \A p \in Producers : prod[p].pc = "done"
       /\ (ctl = "join_processors" /\ ctl' # ctl) =>
             \A i \in Processors : proc[i].pc = "done"
       /\ (ctl = "join_strategies" /\ ctl' # ctl) =>
             \A j \in Strategies : strat[j].pc = "done"
       /\ (summary' # summary) =>
             /\ ctl = "summary"
             /\ \A j \in Strategies : strat[j].pc = "done"
       /\ PhaseRank(ctl) >= 7 =>
             /\ \A j \in Strategies : strat'[j].pc = "done"
             /\ (latencies' # latencies => ctl = "summary")
       /\ PhaseRank(ctl) >= 8 => latencies' = latencies]_vars

\* C13 witness: main has written the summary of a run with MaxSecs monitor
\* intervals in which messages were delivered.
W_C13_SummaryWritten ==
    /\ ctl = "exit"
    /\ summary # <<>>
    /\ Len(log) = MaxSecs
    /\ delivered > 0
    /\ Len(latencies.total_us) = delivered

(***************************************************************************)
(* Routing entries out of range (checked under SpecLoad)                   *)
(***************************************************************************)
\* C14: with a stage1_routing entry outside [0, processor_count) or a
\* stage2_routing entry outside [0, strategy_count) the controller refuses
\* to start: no worker thread is ever created and no ring vector is ever
\* indexed out of range.
CE_C14_RefusesOutOfRange ==
    ~InRange(cfg) =>
        /\ \A p \in Producers : prod[p].pc = "unborn"
        /\ \A i \in Processors : proc[i].pc = "unborn"
        /\ \A j \in Strategies : strat[j].pc = "unborn"
        /\ ~oob

(***************************************************************************)
(* Routing                                                                 *)
(***************************************************************************)
\* Positions at which a processor holds a message pop has returned.
ProcessorHolds == {"stamp", "push_head", "push_tail", "retry", "push_write",
                   "push_store", "inc"}

\* Positions at which a strategy holds a message pop has returned.
StrategyHolds == {"clock", "add", "inc"}

\* C15: every message processor i has popped has stage1_routing[msg_type] = i;
\* every message strategy j has popped has stage2_routing[msg_type] = j and
\* processor_id = stage1_routing[msg_type]; and when every type drawn maps to
\* one processor k, every other Stage-1 ring stays empty and untouched.
CE_C15_RoutingHonoured ==
    /\ \A i \in Processors :
          proc[i].pc \in ProcessorHolds =>
              cfg.stage1_routing[proc[i].msg.msg_type] = i
    /\ \A j \in Strategies :
          strat[j].pc \in StrategyHolds =>
              /\ cfg.stage2_routing[strat[j].msg.msg_type] = j
              /\ strat[j].msg.processor_id = cfg.stage1_routing[strat[j].msg.msg_type]
    /\ \A k \in Processors :
          (\A t \in TypeDraws : cfg.stage1_routing[t] = k) =>
              \A i \in Processors \ {k} : stage1_queues[i] = NewQueue(UninitMsg)

(***************************************************************************)
(* LatencyStats::add (checked under SpecStats)                             *)
(***************************************************************************)
\* C16: whenever the mutex is free the four series have the same length and
\* position k of all four holds the values of one call of add; once every
\* strategy is joined that length equals the delivered counter.
T_C16_SamplesAtomic ==
    /\ mtx = Unlocked =>
          /\ Len(latencies.processing_us) = Len(latencies.stage1_us)
          /\ Len(latencies.stage2_us) = Len(latencies.stage1_us)
          /\ Len(latencies.total_us) = Len(latencies.stage1_us)
          /\ \A k \in 1 .. Len(latencies.stage1_us) :
                /\ latencies.processing_us[k] = latencies.stage1_us[k]
                /\ latencies.stage2_us[k] = latencies.stage1_us[k]
                /\ latencies.total_us[k] = latencies.stage1_us[k]
    /\ ctl = "summary" =>
          /\ mtx = Unlocked
          /\ Len(latencies.stage1_us) = delivered

\* C16 witness: one strategy is in the middle of its four appends while
\* another waits for the mutex, after earlier samples of both.
W_C16_ContendedAdd ==
    \E j, k \in Strategies :
        /\ j # k
        /\ mtx = j
        /\ strat[j].pc = "add_s2"
        /\ strat[k].pc = "add_lock"
        /\ Len(latencies.total_us) >= 2
        /\ delivered >= 1

(***************************************************************************)
(* The ring from one thread (checked under SpecSeq)                        *)
(***************************************************************************)
\* The FIFO sequence the ring stands for: what was pushed and not yet popped.
Fifo == SubSeq(pushed, Len(popped) + 1, Len(pushed))

\* C17: used from one thread the ring is a FIFO sequence bounded at
\* Capacity - 1 elements: push succeeds iff the sequence has fewer than
\* Capacity - 1 elements and then appends its item; pop succeeds iff the
\* sequence is not empty and then returns and removes its oldest element;
\* size() returns the length of the sequence, which is successful pushes
\* minus successful pops, at every step, wrapped or not.
T_C17_BoundedFifo ==
    /\ [](/\ IsPrefix(popped, pushed)
          /\ size(q) = Len(pushed) - Len(popped)
          /\ Len(Fifo) <= Capacity - 1)
    /\ [][/\ (last'.op = "push" /\ calls' # calls) =>
                /\ last'.ok = (Len(Fifo) < Capacity - 1)
                /\ Fifo' = IF last'.ok THEN Append(Fifo, last'.arg) ELSE Fifo
          /\ (last'.op = "pop" /\ calls' = calls /\ last' # last) =>
                /\ last'.ok = (Fifo # <<>>)
                /\ last'.ok => (last'.out = Head(Fifo) /\ Fifo' = Tail(Fifo))
                /\ ~last'.ok => Fifo' = Fifo
          /\ (popped' # popped) => (last'.op = "pop" /\ last'.ok)
          /\ (last'.op = "size" /\ last' # last) =>
                /\ last'.n = Len(Fifo)
                /\ Fifo' = Fifo]_vars

\* C17 witness: after head and tail have both wrapped around (Capacity pops
\* and more pushes), the ring is full (Capacity - 1 elements) and size() was
\* asked.
W_C17_FullAfterWrap ==
    /\ Len(popped) >= Capacity
    /\ Len(Fifo) = Capacity - 1
    /\ q.head = (q.tail + Capacity - 1) % Capacity
    /\ last.op = "size"
    /\ last.n = Capacity - 1

(***************************************************************************)
(* Failed calls of the ring (checked under SpecRing)                       *)
(***************************************************************************)
\* C18: the tail check of push sends the call back with false exactly when
\* (head + 1) mod Capacity = tail, and the head check of pop exactly when
\* head = tail; the check is made once per call; a call that fails leaves
\* head, tail and every slot as they were, accepts and returns no item, and
\* a failed pop leaves the caller's item as it was.
T_C18_FailedCallsFrame ==
    [][/\ (pusher.pc = "push_tail" /\ pusher' # pusher) =>
             /\ (pusher'.pc = "idle") = ((q.head + 1) % Capacity = q.tail)
             /\ pusher'.pc \in {"idle", "push_write"}
             /\ q' = q
             /\ pushed' = pushed
       /\ (popper.pc = "pop_head" /\ popper' # popper) =>
             /\ (popper'.pc = "idle") = (q.head = q.tail)
             /\ popper'.pc \in {"idle", "pop_copy"}
             /\ q' = q
             /\ popped' = popped
             /\ popper'.item = popper.item
       /\ (pushed' # pushed) => pusher.pc = "push_store"
       /\ (popped' # popped) => popper.pc = "pop_store"]_vars

\* C18 witness: a pop is about to fail on the empty ring with the caller's
\* item still holding the item popped before, after a push has failed.
W_C18_PopFailsAfterPushFailed ==
    /\ popper.pc = "pop_head"
    /\ popper.tail = q.head
    /\ Len(popped) >= 1
    /\ popper.item = popped[Len(popped)]
    /\ pusher.pc = "idle"
    /\ calls > Len(pushed)

(***************************************************************************)
(* LatencyStats::percentile (checked under SpecPct)                        *)
(***************************************************************************)
\* C19: percentile(v, p) is 0 for the empty series and otherwise the element
\* at index min(floor(p * n), n - 1) of the ascending order of v (the value x
\* of v with that many elements or fewer below it and more than that many at
\* most x); p = 0.0 gives the minimum and p = 1.0 the maximum; on the values
\* 1..100 the results for 0.50, 0.90, 0.99 are 51, 91, 100; the call leaves
\* v in ascending order with the same values the same number of times.
T_C19_Percentile ==
    pv.called =>
        LET n == Len(pv.arg)
            idx == IF (pv.pct * n) \div 100 < n - 1 THEN (pv.pct * n) \div 100 ELSE n - 1
        IN  /\ n = 0 => pv.ret = 0
            /\ n > 0 =>
                  /\ \E k \in 1 .. n : pv.arg[k] = pv.ret
                  /\ CountBelow(pv.arg, pv.ret) <= idx
                  /\ idx < CountAtMost(pv.arg, pv.ret)
                  /\ pv.pct = 0 => \A k \in 1 .. n : pv.ret <= pv.arg[k]
                  /\ pv.pct = 100 => \A k \in 1 .. n : pv.ret >= pv.arg[k]
            /\ pv.arg = Hundred =>
                  /\ pv.pct = 50 => pv.ret = 51
                  /\ pv.pct = 90 => pv.ret = 91
                  /\ pv.pct = 99 => pv.ret = 100
            /\ Len(pv.v) = n
            /\ \A k \in 1 .. (n - 1) : pv.v[k] <= pv.v[k + 1]
            /\ \A k \in 1 .. n :
                  CountAtMost(pv.v, pv.arg[k]) - CountBelow(pv.v, pv.arg[k])
                      = CountAtMost(pv.arg, pv.arg[k]) - CountBelow(pv.arg, pv.arg[k])

\* C19 witness: the call with p = 0.90 on the values 1..100 in descending
\* order.
W_C19_NinetiethOfHundred ==
    /\ pv.called
    /\ pv.arg = Hundred
    /\ pv.pct = 90
    /\ pv.ret = 91
    /\ pv.v[1] = 1
    /\ pv.v[100] = 100

\* C20: every line the monitor logs carries as "Lost" the signed change of
\* the backlog over the interval, (p - d) - (prev_prod - prev_del), negative
\* when the backlog shrank or d was read larger than p.
CE_C20_LostSigned ==
    [][(ctl = "log" /\ ctl' = "monitor") =>
          log'[Len(log')].lost
              = LostNowSigned(mon.p, mon.d, mon.prev_prod, mon.prev_del)]_vars

(***************************************************************************)
(* Sequence numbers of a producer (checked under Spec)                     *)
(***************************************************************************)
\* A producer between line 188 (seq++) and the return of push (line 193).
Attempting(pr) == pr.pc \in {"push_head", "push_tail", "push_write", "push_store"}

RECURSIVE SumAccepted(_)
SumAccepted(S) == IF S = {} THEN 0
                  ELSE LET p == CHOOSE x \in S : TRUE
                       IN  Cardinality(Accepted(prod[p])) + SumAccepted(S \ {p})

ProducerCanPush == {"build", "push_head", "push_tail", "push_write", "push_store"}
ProcessorCanPush == {"stamp", "push_head", "push_tail", "push_write", "push_store"}

NoExitBeforeUpstream ==
    /\ (\E i \in Processors : proc[i].pc = "done") =>
           \A p \in Producers : prod[p].pc \notin ProducerCanPush
    /\ (\E j \in Strategies : strat[j].pc = "done") =>
           \A i \in Processors : proc[i].pc \notin ProcessorCanPush

NoPushToExitedConsumer ==
    /\ \A i \in Processors :
          stage1_queues'[i].head # stage1_queues[i].head => proc[i].pc # "done"
    /\ \A j \in Strategies :
          stage2_queues'[j].head # stage2_queues[j].head => strat[j].pc # "done"

\* C22: no processor thread has exited while a producer thread can still
\* push, no strategy thread has exited while a processor thread can still
\* push, and no push publishes a message in a ring whose consumer thread has
\* exited.
CE_C22_UpstreamStopsFirst ==
    [] NoExitBeforeUpstream /\ [][NoPushToExitedConsumer]_vars

(***************************************************************************)
(* Slot ownership in the ring (checked under SpecRing)                     *)
(***************************************************************************)
\* The slots published and not yet released: tail, tail + 1, ... up to head.
Published == {(q.tail + k) % Capacity : k \in 0 .. (size(q) - 1)}

\* C23: with one pusher and one popper, each load and store a step, the
\* popper is about to copy (line 42) only a slot that the pusher has
\* published by storing head and that holds the item pushed into it; the
\* pusher is about to write (line 33) only a slot that is not published or
\* that the popper has released by storing tail; and the write and the copy
\* are never both due on the same slot.
T_C23_NoSlotRace ==
    /\ popper.pc = "pop_copy" =>
          /\ popper.tail \in Published
          /\ q.buffer[popper.tail] # Indet
          /\ q.buffer[popper.tail] = pushed[Len(popped) + 1]
    /\ pusher.pc = "push_write" => pusher.head \notin Published
    /\ (pusher.pc = "push_write" /\ popper.pc = "pop_copy") =>
          pusher.head # popper.tail

\* C23 witness: after the indices have wrapped, the ring is one short of
\* full, the pusher is about to write one slot and the popper to copy
\* another.
W_C23_WriteBesideCopy ==
    /\ pusher.pc = "push_write"
    /\ popper.pc = "pop_copy"
    /\ Len(popped) >= Capacity
    /\ size(q) = Capacity - 2

(***************************************************************************)
(* Order of delivery under sharding (checked under SpecSharded)            *)
(***************************************************************************)
\* C24: when every ring has one pushing thread, two recorded messages of
\* the same producer and the same msg_type were recorded in the order of
\* their sequences (and none of them twice).
T_C24_SameTypeInOrder ==
    /\ CE_C2_SingleWriter
    /\ \A a, b \in 1 .. Len(recorded) :
          (a < b /\ recorded[a][1] = recorded[b][1] /\ recorded[a][3] = recorded[b][3])
              => recorded[a][2] < recorded[b][2]

\* C24 witness: three messages of one producer recorded, the two of one
\* msg_type in sequence order and the one of the other msg_type, built
\* first, recorded after a later one.
W_C24_OtherTypeOvertaken ==
    /\ Len(recorded) = 3
    /\ \E a, b \in 1 .. 3 :
          /\ a < b
          /\ recorded[a][3] # recorded[b][3]
          /\ recorded[a][2] > recorded[b][2]
    /\ \E a, b \in 1 .. 3 :
          /\ a < b
          /\ recorded[a][3] = recorded[b][3]
          /\ recorded[a][2] < recorded[b][2]

(***************************************************************************)
(* The benchmark's threads (checked under SpecBench)                       *)
(***************************************************************************)
\* C25: neither the producer nor the consumer thread of
\* BM_SPSCQueue_Throughput has exited before the stop_flag = true that
\* follows the iteration loop, so both run in the measured window of every
\* iteration.
CE_C25_ThreadsServeEveryIteration ==
    (bench.producer = "done" \/ bench.consumer = "done") =>
        bench.pc \in {"join", "exit"}

====
